---------------------------- MODULE Spec2Model ----------------------------
(***************************************************************************)
(* Model of GLFontManager (src/lib/gllabel.cpp): the glyph cache, the      *)
(* atlas groups and their two cursors, and the upload flush.               *)
(*                                                                         *)
(* A glyph's outline is an input: the font library delivers, per           *)
(* (face, codepoint), a number of curves, the largest number of curves     *)
(* that touch one grid cell, and the metrics.  The buffers of an atlas     *)
(* group are kept as the list of writes made to them.                      *)
(***************************************************************************)
EXTENDS Integers, Sequences, FiniteSets, TLC

(***************************************************************************)
(* Program constants.                                                      *)
(***************************************************************************)
kGridMaxSize == 20
kGridAtlasSize == 256
kBezierAtlasSize == 256

sq(x) == x * x

\* uint16_t holds values modulo 2^16
UINT16_MOD == 65536
UINT16_MAX == 65535

(***************************************************************************)
(* Bounds of the model.                                                    *)
(***************************************************************************)
\* a general run stores at most MaxCached glyphs, requested in any order
MaxCached == 4
\* number of consecutive codepoints a fill run requests, from FillKey(0) on
MaxFill == 170

Faces == {1, 2}
Points == 0..3

\* the k-th key of a fill run, of the first face (LoadASCII starts its loop
\* at codepoint 32)
FillKey(k) == <<1, 32 + k>>

(***************************************************************************)
(* The font library (FreeType), as the code reads it.                      *)
(***************************************************************************)
\* curves.size() after GetBeziersForOutline(&face->glyph->outline)
CurveCount(face, point) ==
    CASE face = 1 /\ point = 0 -> 0          \* whitespace: no contour
      [] face = 1 /\ point = 1 -> 3
      [] face = 1 /\ point = 2 -> 21000      \* 63002 texels
      [] face = 1 /\ point = 3 -> 10000      \* 30002 texels
      [] face = 2 /\ point = 0 -> 5          \* five curves through one cell
      [] face = 2 /\ point = 1 -> 1200       \* 3602 texels
      [] face = 2 /\ point = 2 -> 21845      \* 65537 texels
      [] face = 2 /\ point = 3 -> 11844      \* 35534 texels
      [] point % 16 = 0 -> 0                 \* blank glyphs, as the space at 32
      [] OTHER -> 1 + (point % 4)

\* the largest number of curves of the glyph that touch one cell of its grid
MaxCurvesInCell(face, point) ==
    CASE face = 2 /\ point = 0 -> 5
      [] CurveCount(face, point) >= 2 -> 2
      [] OTHER -> CurveCount(face, point)

\* cells of the glyph's VGrid, one for every number of curves (0 to 4, of the
\* curves the glyph has) and either side of the outline: the indices of the
\* curves that touch the cell, in rising order, and whether the centre of the
\* cell is inside the outline
VGridCells(face, point) ==
    LET most == IF CurveCount(face, point) < 4 THEN CurveCount(face, point) ELSE 4
    IN [c \in 1..(2 * (most + 1)) |->
           [ beziers   |-> [b \in 1..((c - 1) \div 2) |-> b - 1],
             midInside |-> (c % 2 = 0) ]]

\* face->glyph->metrics, in font units
MetricsWidth(face, point) ==
    IF face = 2 /\ point = 3 THEN 1024 ELSE 500 + 10 * point + face
MetricsHeight(face, point) ==
    IF face = 2 /\ point = 3 THEN 2048 ELSE 700 + 10 * point + face
MetricsHoriBearingX(face, point) == 40 + point
MetricsHoriBearingY(face, point) == 690 + 10 * point - face
MetricsHoriAdvance(face, point) == 600 + 10 * point + face

\* face->height, the distance between two baselines
FaceHeight(face) == 1200 + face

\* curves[0] of a glyph that has curves: the end points e0, e1 and the control
\* point c, in font units within the glyph's box
FirstCurve(face, point) ==
    IF face = 2 /\ point = 3
    THEN [ e0 |-> <<MetricsWidth(face, point) \div 2, MetricsHeight(face, point)>>,
           c  |-> <<0, 0>>,
           e1 |-> <<MetricsWidth(face, point), MetricsHeight(face, point) \div 2>> ]
    ELSE [ e0 |-> <<0, 0>>,
           c  |-> <<MetricsWidth(face, point) \div 3, MetricsHeight(face, point)>>,
           e1 |-> <<MetricsWidth(face, point), MetricsHeight(face, point) \div 7>> ]

(***************************************************************************)
(* State.                                                                  *)
(***************************************************************************)
VARIABLES
    atlases,      \* std::vector<AtlasGroup>
    glyphs,       \* the cache: (face, codepoint) -> Glyph
    lastCall,     \* what the last call did and returned
    extractions,  \* per key, how often the outline was extracted
    gridBuilds,   \* per key, how often a VGrid was built
    heapOverrun,  \* a write went past the end of a buffer and the run went on
    alive,        \* FALSE once a write past the end of a buffer ended the process
    text,         \* GLLabel::text, the codepoints of the label
    labelGlyphs,  \* GLLabel::glyphs: per codepoint the record it shows (the key
                  \* of the cache entry pointed to) or Null
    verts,        \* GLLabel::verts, six vertices per codepoint
    insert,       \* the call of InsertText under way (its arguments and
                  \* locals), or Null
    undo,         \* the edits of the label so far: how many, and if the
                  \* latest is an InsertText, the label as it was before it
                  \* with the place and length of the insertion; or Null
    render,       \* the call of Render under way (the textures bound and the
                  \* caret glyph), or Null
    draws         \* the glDrawArrays calls of the latest Render

managerVars == <<atlases, glyphs, lastCall, extractions, gridBuilds, heapOverrun, alive>>
labelVars == <<text, labelGlyphs, verts, insert, undo>>
renderVars == <<render, draws>>
vars == <<atlases, glyphs, lastCall, extractions, gridBuilds, heapOverrun, alive,
          text, labelGlyphs, verts, insert, undo, render, draws>>

Null == <<>>

\* a group as GetOpenAtlasGroup creates it: AtlasGroup group{}, zeroed
\* buffers; unsent tells whether glyphDataBuf or gridAtlas holds bytes that
\* the buffer object glyphDataBufId and the texture gridAtlasId do not
NewAtlasGroup ==
    [ glyphDataBufOffset |-> 0,
      nextGridPos        |-> <<0, 0>>,
      full               |-> FALSE,
      uploaded           |-> TRUE,
      glyphDataBuf       |-> <<>>,
      gridAtlas          |-> <<>>,
      unsent             |-> FALSE ]

\* (mutant) a group is opened at every call
GetOpenAtlasGroupAlways(as) == Append(as, NewAtlasGroup)

GetOpenAtlasGroup(as) ==
    IF Len(as) = 0 \/ as[Len(as)].full
    THEN Append(as, NewAtlasGroup)
    ELSE as

\* uint16_t bezierPixelLength = 2 + curves.size() * 3
BezierPixelLength(n) == (2 + n * 3) % UINT16_MOD

\* the number of texels write_glyph_data_to_buffer writes: 2 header texels
\* and 3 per curve
WrittenTexels(n) == 2 + 3 * n

TooManyCurves(len) == len > sq(kBezierAtlasSize)

\* the group is marked full and dirty
MarkFull(as) ==
    [as EXCEPT ![Len(as)].full = TRUE, ![Len(as)].uploaded = FALSE]

\* find an open position in the bezier atlas
FindBezierPos(as, len) ==
    IF as[Len(as)].glyphDataBufOffset + len > sq(kBezierAtlasSize)
    THEN GetOpenAtlasGroup(MarkFull(as))
    ELSE as

\* (mutant) the group is full as soon as a row would end past the atlas
FindGridPosFits(as) ==
    LET g == as[Len(as)] IN
    IF g.nextGridPos[1] + kGridMaxSize > kGridAtlasSize
    THEN LET y == g.nextGridPos[2] + kGridMaxSize
             wrapped == [as EXCEPT ![Len(as)].nextGridPos = <<0, y>>]
         IN IF y + kGridMaxSize > kGridAtlasSize
            THEN GetOpenAtlasGroup(MarkFull(wrapped))
            ELSE wrapped
    ELSE as

\* find an open position in the grid atlas
FindGridPos(as) ==
    LET g == as[Len(as)] IN
    IF g.nextGridPos[1] + kGridMaxSize > kGridAtlasSize
    THEN LET y == g.nextGridPos[2] + kGridMaxSize
             wrapped == [as EXCEPT ![Len(as)].nextGridPos = <<0, y>>]
         IN IF y >= kGridAtlasSize
            THEN GetOpenAtlasGroup(MarkFull(wrapped))
            ELSE wrapped
    ELSE as

\* (mutant) the flag is set and the metrics are left zeroed
DegenerateGlyphNoMetrics(face, point) ==
    [ bezierAtlasPos |-> <<0, -1>>,
      size    |-> <<0, 0>>,
      offset  |-> <<0, 0>>,
      advance |-> 0 ]

\* the record of a glyph with no curves in an atlas
DegenerateGlyph(face, point) ==
    [ bezierAtlasPos |-> <<0, -1>>,
      size    |-> <<MetricsWidth(face, point), MetricsHeight(face, point)>>,
      offset  |-> <<MetricsHoriBearingX(face, point),
                    MetricsHoriBearingY(face, point) - MetricsHeight(face, point)>>,
      advance |-> MetricsHoriAdvance(face, point) ]

\* the record of a glyph written to the last group of `as`
PlacedGlyph(face, point, as) ==
    [ bezierAtlasPos |-> <<as[Len(as)].glyphDataBufOffset, Len(as) - 1>>,
      size    |-> <<MetricsWidth(face, point), MetricsHeight(face, point)>>,
      offset  |-> <<MetricsHoriBearingX(face, point),
                    MetricsHoriBearingY(face, point) - MetricsHeight(face, point)>>,
      advance |-> MetricsHoriAdvance(face, point) ]

\* a uint16_t in the byte buffer, as the targets of the build store it: the
\* low byte first
LoByte(v) == v % 256
HiByte(v) == (v \div 256) % 256

\* the four bytes (R, G, B, A) of the texel that holds two uint16_t
Texel(h0, h1) == <<LoByte(h0), HiByte(h0), LoByte(h1), HiByte(h1)>>

\* (mutant) the header values are stored high byte first
HeaderTexelsHighFirst(gridX, gridY, gridWidth, gridHeight) ==
    << <<HiByte(gridX), LoByte(gridX), HiByte(gridY), LoByte(gridY)>>,
       <<HiByte(gridWidth), LoByte(gridWidth), HiByte(gridHeight), LoByte(gridHeight)>> >>

\* buffer[0] .. buffer[3] of write_glyph_data_to_buffer: the two header
\* texels, of uint16_t arguments
HeaderTexels(gridX, gridY, gridWidth, gridHeight) ==
    << Texel(gridX % UINT16_MOD, gridY % UINT16_MOD),
       Texel(gridWidth % UINT16_MOD, gridHeight % UINT16_MOD) >>

\* the uint16_t that coord * UINT16_MAX / size is stored as: the conversion
\* of the quotient to an integer drops its fraction
ScaleCoord(coord, size) == (coord * UINT16_MAX) \div size

\* the three texels of a curve: e0, c, e1, x before y
write_bezier_to_buffer(bezier, glyphSize) ==
    << Texel(ScaleCoord(bezier.e0[1], glyphSize[1]), ScaleCoord(bezier.e0[2], glyphSize[2])),
       Texel(ScaleCoord(bezier.c[1], glyphSize[1]), ScaleCoord(bezier.c[2], glyphSize[2])),
       Texel(ScaleCoord(bezier.e1[1], glyphSize[1]), ScaleCoord(bezier.e1[2], glyphSize[2])) >>

\* (mutant) the header takes one texel only
HalfWordOfShortHeader(i, k) == 2 + 6 * i + k

\* the index, in uint16_t from the start of the glyph's data, of value k
\* (e0.x, e0.y, c.x, c.y, e1.x, e1.y) of curve i: buffer += 4 for the header
\* and *pbuffer += 6 for every curve
HalfWordOf(i, k) == 4 + 6 * i + k

\* the four slot bytes of a cell: the curves that touch it first, as
\* index + 2, then the codes 1, 0 when the centre is inside and 0, 1 when it
\* is outside, as far as slots are left; 0 after them
write_vgrid_cell_to_buffer(cell) ==
    LET real == [b \in 1..Len(cell.beziers) |-> cell.beziers[b] + 2]
        fill == IF cell.midInside THEN <<1, 0, 0, 0>> ELSE <<0, 1, 0, 0>>
    IN real \o SubSeq(fill, 1, 4 - Len(real))

\* write_glyph_data_to_buffer and WriteVGridAt, at the cursors of the last group
WriteGlyph(face, point, n, as) ==
    LET g == as[Len(as)] IN
    [as EXCEPT
       ![Len(as)].glyphDataBuf = Append(@,
            [ at |-> g.glyphDataBufOffset, texels |-> WrittenTexels(n),
              gridX |-> g.nextGridPos[1], gridY |-> g.nextGridPos[2],
              gridWidth |-> kGridMaxSize, gridHeight |-> kGridMaxSize,
              header |-> HeaderTexels(g.nextGridPos[1], g.nextGridPos[2],
                                      kGridMaxSize, kGridMaxSize),
              bezier0 |-> write_bezier_to_buffer(FirstCurve(face, point),
                             <<MetricsWidth(face, point), MetricsHeight(face, point)>>),
              key |-> <<face, point>> ]),
       ![Len(as)].gridAtlas = Append(@,
            [ x |-> g.nextGridPos[1], y |-> g.nextGridPos[2],
              width |-> kGridMaxSize, height |-> kGridMaxSize,
              cells |-> [c \in 1..Len(VGridCells(face, point)) |->
                            write_vgrid_cell_to_buffer(VGridCells(face, point)[c])],
              key |-> <<face, point>> ]),
       ![Len(as)].unsent = TRUE]

\* the value the field glyphDataBufOffset holds once x is assigned to it: a
\* cursor counted in texels, which takes every value up to the size of the
\* buffer
StoredOffset(x) == x

\* (mutant) the group is not marked as changed
AdvanceCursorsClean(as, len) ==
    [as EXCEPT
       ![Len(as)].glyphDataBufOffset = @ + len,
       ![Len(as)].nextGridPos = <<@[1] + kGridMaxSize, @[2]>>]

\* (mutant) the glyph data offset stays where it is
AdvanceCursorsGridOnly(as, len) ==
    [as EXCEPT
       ![Len(as)].nextGridPos = <<@[1] + kGridMaxSize, @[2]>>,
       ![Len(as)].uploaded = FALSE]

\* the cursors advance past the glyph
AdvanceCursors(as, len) ==
    [as EXCEPT
       ![Len(as)].glyphDataBufOffset = StoredOffset(@ + len),
       ![Len(as)].nextGridPos = <<@[1] + kGridMaxSize, @[2]>>,
       ![Len(as)].uploaded = FALSE]

\* the writes of a glyph at the cursors of the last group end past a buffer
WritesPastEnd(n, as) ==
    LET g == as[Len(as)] IN
    \/ g.glyphDataBufOffset + WrittenTexels(n) > sq(kBezierAtlasSize)
    \/ g.nextGridPos[1] + kGridMaxSize > kGridAtlasSize
    \/ g.nextGridPos[2] + kGridMaxSize > kGridAtlasSize

\* what a call did: the key asked for, the path taken, the pointer returned
\* (the key of the cache entry it points to, or Null) and the number of
\* FT_Load_Glyph calls made
CallRecord(key, how, ret, loads) ==
    [ key |-> key, how |-> how, ret |-> ret, loads |-> loads ]

Init ==
    /\ atlases = <<>>
    /\ glyphs = <<>>
    /\ lastCall = CallRecord(Null, "none", Null, 0)
    /\ extractions = <<>>
    /\ gridBuilds = <<>>
    /\ heapOverrun = FALSE
    /\ alive = TRUE
    /\ text = <<>>
    /\ labelGlyphs = <<>>
    /\ verts = <<>>
    /\ insert = Null
    /\ undo = Null
    /\ render = Null
    /\ draws = <<>>

Count(f, key) == IF key \in DOMAIN f THEN f[key] ELSE 0

Bump(f, key) ==
    [k \in DOMAIN f \cup {key} |-> Count(f, k) + (IF k = key THEN 1 ELSE 0)]

\* (mutant) the cache keeps only the record stored last
StoreEvicting(cache, key, glyph) == [k \in {key} |-> glyph]

\* this->glyphs[face][point] = glyph
Store(cache, key, glyph) ==
    [k \in DOMAIN cache \cup {key} |-> IF k = key THEN glyph ELSE cache[k]]

\* (mutant) a record with the no-curves flag is not found
CachedPlacedOnly(face, point) ==
    /\ <<face, point>> \in DOMAIN glyphs
    /\ glyphs[<<face, point>>].bezierAtlasPos[2] # -1

\* the two finds at the head of GetGlyphForCodepoint
Cached(face, point) == <<face, point>> \in DOMAIN glyphs

\* the cached record is returned
CacheHit(face, point) ==
    /\ lastCall' = CallRecord(<<face, point>>, "hit", <<face, point>>, 0)
    /\ UNCHANGED <<atlases, glyphs, extractions, gridBuilds, heapOverrun, alive>>

\* (mutant) the failure is cached as a degenerate record
LoadFailsCached(face, point) ==
    /\ atlases' = GetOpenAtlasGroup(atlases)
    /\ glyphs' = Store(glyphs, <<face, point>>, DegenerateGlyph(face, point))
    /\ lastCall' = CallRecord(<<face, point>>, "loadFailed", Null, 1)
    /\ UNCHANGED <<extractions, gridBuilds, heapOverrun, alive>>

\* FT_Load_Glyph fails: nullptr
LoadFails(face, point) ==
    /\ atlases' = GetOpenAtlasGroup(atlases)
    /\ lastCall' = CallRecord(<<face, point>>, "loadFailed", Null, 1)
    /\ UNCHANGED <<glyphs, extractions, gridBuilds, heapOverrun, alive>>

\* (mutant) the header texels and the grid of the degenerate glyph are
\* reserved
StoreDegenerateReserving(face, point) ==
    /\ atlases' = AdvanceCursors(GetOpenAtlasGroup(atlases),
                                 BezierPixelLength(CurveCount(face, point)))
    /\ glyphs' = Store(glyphs, <<face, point>>, DegenerateGlyph(face, point))
    /\ extractions' = Bump(extractions, <<face, point>>)
    /\ gridBuilds' = Bump(gridBuilds, <<face, point>>)
    /\ lastCall' = CallRecord(<<face, point>>, "degenerate", <<face, point>>, 1)
    /\ UNCHANGED <<heapOverrun, alive>>

\* curves.size() == 0 || tooManyCurves
StoreDegenerate(face, point) ==
    /\ atlases' = GetOpenAtlasGroup(atlases)
    /\ glyphs' = Store(glyphs, <<face, point>>, DegenerateGlyph(face, point))
    /\ extractions' = Bump(extractions, <<face, point>>)
    /\ gridBuilds' = Bump(gridBuilds, <<face, point>>)
    /\ lastCall' = CallRecord(<<face, point>>, "degenerate", <<face, point>>, 1)
    /\ UNCHANGED <<heapOverrun, alive>>

\* the glyph is written at an open position and its record stored; a write
\* past the end of a buffer either goes unnoticed or ends the process
PlaceGlyph(face, point, survive) ==
    LET n == CurveCount(face, point)
        bezierPixelLength == BezierPixelLength(n)
        found == FindGridPos(FindBezierPos(GetOpenAtlasGroup(atlases),
                                           bezierPixelLength))
        past == WritesPastEnd(n, found)
    IN
    /\ extractions' = Bump(extractions, <<face, point>>)
    /\ gridBuilds' = Bump(gridBuilds, <<face, point>>)
    /\ IF past /\ ~survive
       THEN /\ alive' = FALSE
            /\ lastCall' = CallRecord(<<face, point>>, "crashed", Null, 1)
            /\ UNCHANGED <<atlases, glyphs, heapOverrun>>
       ELSE /\ atlases' = AdvanceCursors(WriteGlyph(face, point, n, found),
                                         bezierPixelLength)
            /\ glyphs' = Store(glyphs, <<face, point>>,
                               PlacedGlyph(face, point, found))
            /\ heapOverrun' = (heapOverrun \/ past)
            /\ lastCall' = CallRecord(<<face, point>>, "placed", <<face, point>>, 1)
            /\ UNCHANGED alive

(***************************************************************************)
(* GLFontManager::GetGlyphForCodepoint.  loadOk is FT_Load_Glyph's answer; *)
(* survive is whether the process outlives a write past the end of a       *)
(* buffer.                                                                 *)
(***************************************************************************)
GetGlyphForCodepoint(face, point, loadOk, survive) ==
    /\ alive
    /\ IF Cached(face, point)
       THEN CacheHit(face, point)
       ELSE IF ~loadOk
       THEN LoadFails(face, point)
       ELSE IF \/ CurveCount(face, point) = 0
               \/ TooManyCurves(BezierPixelLength(CurveCount(face, point)))
       THEN StoreDegenerate(face, point)
       ELSE PlaceGlyph(face, point, survive)

(***************************************************************************)
(* GLFontManager::UploadAtlases.                                           *)
(***************************************************************************)
UploadAtlases ==
    /\ alive
    /\ atlases' = [i \in 1..Len(atlases) |->
                      IF atlases[i].uploaded
                      THEN atlases[i]
                      ELSE [atlases[i] EXCEPT !.unsent = FALSE, !.uploaded = TRUE]]
    /\ lastCall' = CallRecord(Null, "upload", Null, 0)
    /\ UNCHANGED <<glyphs, extractions, gridBuilds, heapOverrun, alive>>
    /\ UNCHANGED labelVars

\* a flush of the atlases outside Render
Flush == render = Null /\ UploadAtlases /\ UNCHANGED renderVars

\* a general run: any of the eight glyphs of the two faces, in any order
GetGlyph ==
    \E face \in Faces, point \in Points, loadOk \in BOOLEAN, survive \in BOOLEAN :
        /\ Cached(face, point) \/ Cardinality(DOMAIN glyphs) < MaxCached
        /\ GetGlyphForCodepoint(face, point, loadOk, survive)
        /\ UNCHANGED labelVars
        /\ UNCHANGED renderVars

Next == GetGlyph \/ Flush

Spec == Init /\ [][Next]_vars

(***************************************************************************)
(* A fill run: distinct glyphs with few curves, one codepoint after the    *)
(* other (as LoadASCII does from codepoint 32 on), and flushes.            *)
(***************************************************************************)
FillNextGlyph ==
    /\ Cardinality(DOMAIN glyphs) < MaxFill
    /\ \E point \in 0..MaxFill, loadOk \in BOOLEAN, survive \in BOOLEAN :
        /\ point = Cardinality(DOMAIN glyphs)
        /\ GetGlyphForCodepoint(FillKey(point)[1], FillKey(point)[2], loadOk, survive)
        /\ UNCHANGED labelVars
        /\ UNCHANGED renderVars

FillAgain ==
    /\ Cardinality(DOMAIN glyphs) > 0
    /\ GetGlyphForCodepoint(FillKey(Cardinality(DOMAIN glyphs) - 1)[1],
                            FillKey(Cardinality(DOMAIN glyphs) - 1)[2], TRUE, TRUE)
    /\ UNCHANGED labelVars
    /\ UNCHANGED renderVars

FillNext == FillNextGlyph \/ FillAgain \/ Flush

SpecFill == Init /\ [][FillNext]_vars

(***************************************************************************)
(* GLLabel::InsertText.  The call is taken in steps: its head (the text,   *)
(* the glyph pointers and the vertices make room, the pen is found), one   *)
(* step per codepoint of the loop (with its call of GetGlyphForCodepoint), *)
(* and its tail (what follows the inserted text is shifted).  No other     *)
(* call runs while one is under way.  Positions are floats that hold       *)
(* integers here; the colour of a vertex is left out.                      *)
(***************************************************************************)
\* a label holds at most MaxText codepoints and one call inserts at most
\* MaxInsert
MaxText == 3
MaxInsert == 2

CarriageReturn == 13
NewLine == 10
Tab == 9

\* the codepoints given to a label: glyphs 0 and 1 of a face and the newline
LabelChars == {0, 1, NewLine}

LabelTexts == UNION {[1..n -> LabelChars] : n \in 1..MaxInsert}

Add(a, b) == <<a[1] + b[1], a[2] + b[2]>>

\* std::vector::insert of `items` before (0-based) position at
InsertAt(seq, at, items) ==
    SubSeq(seq, 1, at) \o items \o SubSeq(seq, at + 1, Len(seq))

Repeat(x, n) == [k \in 1..n |-> x]

\* GlyphVertex emptyVert{}
emptyVert == [pos |-> <<0, 0>>, data |-> 0]

\* the pen after codepoint index - 1 (0-based): the position of its first
\* vertex, moved back by the bearing and on by the advance of its glyph
PenAt(vs, gs, index) ==
    IF index > 0
    THEN IF gs[index] # Null
         THEN LET g == glyphs[gs[index]]
              IN Add(vs[(index - 1) * 6 + 1].pos,
                     <<g.advance - g.offset[1], 0 - g.offset[2]>>)
         ELSE vs[(index - 1) * 6 + 1].pos
    ELSE <<0, 0>>

\* v[j].pos before the pen and the bearing are added
CornerPos(glyph, j) ==
    CASE j = 0 -> <<0, 0>>
      [] j = 1 -> <<glyph.size[1], 0>>
      [] j = 2 -> <<0, glyph.size[2]>>
      [] j = 3 -> <<glyph.size[1], glyph.size[2]>>
      [] j = 4 -> <<0, glyph.size[2]>>
      [] j = 5 -> <<glyph.size[1], 0>>

\* x << 2 of an unsigned int, which holds values modulo 2^32: the two top
\* bits of x are lost
ShiftLeft2(x) == (x % ((UINT16_MOD \div 2) * (UINT16_MOD \div 2))) * 4

\* (mutant) the two bits of the corner change places
PackDataSwapped(glyph, j) ==
    LET k == IF j < 4 THEN j ELSE 6 - j
        normX == k % 2
        normY == IF k > 1 THEN 1 ELSE 0
        norm == normX + normY * 2
    IN ShiftLeft2(glyph.bezierAtlasPos[1]) + norm

\* v[j].data, an unsigned int: (bezierAtlasPos[0] << 2) + norm
PackData(glyph, j) ==
    LET k == IF j < 4 THEN j ELSE 6 - j
        normX == k % 2
        normY == IF k > 1 THEN 1 ELSE 0
        norm == normX * 2 + normY
    IN ShiftLeft2(glyph.bezierAtlasPos[1]) + norm

\* the six vertices of a glyph at the pen
GlyphQuad(glyph, appendOffset) ==
    [j \in 1..6 |->
        [ pos  |-> Add(Add(CornerPos(glyph, j - 1), appendOffset), glyph.offset),
          data |-> PackData(glyph, j - 1) ]]

\* this->verts[slot * 6 + j] = quad[j], slot 0-based
SetQuad(vs, slot, quad) ==
    [k \in 1..Len(vs) |->
        IF k > slot * 6 /\ k <= slot * 6 + 6 THEN quad[k - slot * 6] ELSE vs[k]]

\* the head of InsertText
InsertTextBegin(newText, index, face) ==
    LET at == IF index > Len(text) THEN Len(text) ELSE index
        vs == InsertAt(verts, at * 6, Repeat(emptyVert, Len(newText) * 6))
        gs == InsertAt(labelGlyphs, at, Repeat(Null, Len(newText)))
        appendOffset == PenAt(vs, gs, at)
    IN /\ alive
       /\ insert = Null
       /\ render = Null
       /\ text' = InsertAt(text, at, newText)
       /\ labelGlyphs' = gs
       /\ verts' = vs
       /\ insert' = [ text |-> newText, index |-> at, face |-> face, i |-> 0,
                      appendOffset |-> appendOffset,
                      initialAppendOffset |-> appendOffset ]
       /\ UNCHANGED managerVars

\* one turn of the loop over the inserted codepoints
InsertTextChar(loadOk, survive) ==
    /\ alive
    /\ insert # Null
    /\ insert.i < Len(insert.text)
    /\ LET ch == insert.text[insert.i + 1]
           slot == insert.index + insert.i
           pen == insert.appendOffset
       IN IF ch = CarriageReturn
          THEN /\ verts' = [verts EXCEPT ![slot * 6 + 1].pos = pen]
               /\ insert' = [insert EXCEPT !.i = @ + 1]
               /\ UNCHANGED <<managerVars, text, labelGlyphs>>
          ELSE IF ch = NewLine
          THEN /\ verts' = [verts EXCEPT ![slot * 6 + 1].pos =
                                <<0, pen[2] - FaceHeight(insert.face)>>]
               /\ insert' = [insert EXCEPT !.i = @ + 1, !.appendOffset =
                                <<0, pen[2] - FaceHeight(insert.face)>>]
               /\ UNCHANGED <<managerVars, text, labelGlyphs>>
          ELSE IF ch = Tab
          THEN /\ verts' = [verts EXCEPT ![slot * 6 + 1].pos = <<pen[1] + 2000, pen[2]>>]
               /\ insert' = [insert EXCEPT !.i = @ + 1, !.appendOffset =
                                <<pen[1] + 2000, pen[2]>>]
               /\ UNCHANGED <<managerVars, text, labelGlyphs>>
          ELSE /\ GetGlyphForCodepoint(insert.face, ch, loadOk, survive)
               /\ text' = text
               /\ IF ~alive'
                  THEN UNCHANGED <<labelGlyphs, verts, insert>>
                  ELSE IF lastCall'.ret = Null
                  THEN /\ verts' = [verts EXCEPT ![slot * 6 + 1].pos = pen]
                       /\ insert' = [insert EXCEPT !.i = @ + 1]
                       /\ UNCHANGED labelGlyphs
                  ELSE LET glyph == glyphs'[lastCall'.ret] IN
                       /\ verts' = SetQuad(verts, slot, GlyphQuad(glyph, pen))
                       /\ labelGlyphs' = [labelGlyphs EXCEPT ![slot + 1] = lastCall'.ret]
                       /\ insert' = [insert EXCEPT !.i = @ + 1, !.appendOffset =
                                        <<pen[1] + glyph.advance, pen[2]>>]

\* everything after (0-based) codepoint i - 1 moves by delta, up to the
\* newline that ends the changed line
RECURSIVE ShiftAfter(_, _, _, _)
ShiftAfter(vs, txt, i, delta) ==
    IF i >= Len(txt) THEN vs
    ELSE IF txt[i + 1] = NewLine /\ delta[2] = 0 THEN vs
    ELSE LET d == IF txt[i + 1] = NewLine /\ delta[1] < 0 THEN <<0, delta[2]>> ELSE delta
         IN ShiftAfter([k \in 1..Len(vs) |->
                           IF k > i * 6 /\ k <= i * 6 + 6
                           THEN [vs[k] EXCEPT !.pos = Add(@, d)]
                           ELSE vs[k]],
                       txt, i + 1, d)

\* the tail of InsertText
InsertTextEnd ==
    /\ alive
    /\ insert # Null
    /\ insert.i = Len(insert.text)
    /\ verts' = ShiftAfter(verts, text, insert.index + Len(insert.text),
                           <<insert.appendOffset[1] - insert.initialAppendOffset[1],
                             insert.appendOffset[2] - insert.initialAppendOffset[2]>>)
    /\ insert' = Null
    /\ UNCHANGED <<managerVars, text, labelGlyphs, undo>>
    /\ UNCHANGED renderVars

\* a label is edited: texts of the given codepoints are inserted anywhere,
\* in either face
InsertTextStart ==
    \E newText \in LabelTexts, index \in 0..(MaxText + 1), face \in Faces :
        /\ Len(text) + Len(newText) <= MaxText
        /\ index <= Len(text) + 1
        /\ InsertTextBegin(newText, index, face)
        /\ UNCHANGED undo
        /\ UNCHANGED renderVars

InsertTextLoop ==
    \E loadOk \in BOOLEAN, survive \in BOOLEAN :
        InsertTextChar(loadOk, survive) /\ UNCHANGED <<undo, renderVars>>

LabelNext == InsertTextStart \/ InsertTextLoop \/ InsertTextEnd

SpecLabel == Init /\ [][LabelNext]_vars

(***************************************************************************)
(* GLLabel::Render.  The call is taken in steps: its head up to the draw   *)
(* of the text, the fetch of the caret glyph and the draw of the caret.    *)
(* No other call runs while one is under way.  Of the texture state the    *)
(* model keeps what a draw of the glyph shader reads: the GL_TEXTURE_2D    *)
(* binding of unit 0 (uGridAtlas), the GL_TEXTURE_BUFFER binding of unit 1 *)
(* (uGlyphData), and the active unit that glBindTexture acts on.  A group  *)
(* is named by its index in atlases; groups are never removed, so while    *)
(* there is none, no texture of a group has been bound.                    *)
(***************************************************************************)
\* GetDefaultFont()
DefaultFace == 1
\* '|'
Pipe == 124
\* no texture of a group
NoGroup == -1

\* the texture state before the first group exists
NoTextures == [active |-> 0, gridAtlas |-> NoGroup, glyphData |-> NoGroup]

\* (mutant) the group of the glyph last placed is bound
UseAtlasTexturesLast(gl, as, atlasIndex) ==
    IF Len(as) = 0 THEN gl
    ELSE [active |-> 1, gridAtlas |-> Len(as) - 1, glyphData |-> Len(as) - 1]

\* GLFontManager::UseAtlasTextures(atlasIndex)
UseAtlasTextures(gl, as, atlasIndex) ==
    IF atlasIndex >= Len(as) THEN gl
    ELSE [active |-> 1, gridAtlas |-> atlasIndex, glyphData |-> atlasIndex]

\* the glBindTexture calls of GetOpenAtlasGroup when it opens a group, on the
\* active unit: unit 0's GL_TEXTURE_2D or unit 1's GL_TEXTURE_BUFFER
BindOpened(gl, as, opened) ==
    IF Len(opened) = Len(as) THEN gl
    ELSE IF gl.active = 0
    THEN [gl EXCEPT !.gridAtlas = Len(opened) - 1]
    ELSE [gl EXCEPT !.glyphData = Len(opened) - 1]

\* the groups whose buffers the GPU may not hold as they are
NotUploaded(as) == {i \in 0..(Len(as) - 1) : ~as[i + 1].uploaded}

\* a glDrawArrays call: the glyph records its vertices were made from, the
\* textures bound and the groups not uploaded when it is issued
DrawCall(what, keys, gl, as) ==
    [ what |-> what, keys |-> keys, gridAtlas |-> gl.gridAtlas,
      glyphData |-> gl.glyphData, notUploaded |-> NotUploaded(as) ]

\* lines 221-239: UploadAtlases, UseAtlasTextures(0), the draw of verts
RenderText(caret) ==
    LET gl == UseAtlasTextures(NoTextures, atlases, 0)
        keys == {labelGlyphs[p] : p \in {q \in 1..Len(labelGlyphs) :
                                            labelGlyphs[q] # Null}}
    IN /\ insert = Null
       /\ render = Null
       /\ UploadAtlases
       /\ draws' = <<DrawCall("text", keys, gl, atlases')>>
       /\ render' = IF caret THEN [textures |-> gl, pc |-> "fetch", pipe |-> Null]
                    ELSE Null

\* line 242: the caret glyph is asked of the manager
RenderFetchPipe(loadOk, survive) ==
    /\ render # Null
    /\ render.pc = "fetch"
    /\ GetGlyphForCodepoint(DefaultFace, Pipe, loadOk, survive)
    /\ render' = [ textures |-> BindOpened(render.textures, atlases, atlases'),
                   pc |-> "caret", pipe |-> lastCall'.ret ]
    /\ UNCHANGED labelVars
    /\ UNCHANGED draws

\* lines 244-286: the vertices of the caret are made from *pipe and drawn;
\* pipe is not tested, and reading through nullptr is undefined: the process
\* ends, or a caret made of what was read is drawn
RenderCaret ==
    /\ alive
    /\ render # Null
    /\ render.pc = "caret"
    /\ IF render.pipe = Null
       THEN \/ /\ alive' = FALSE
               /\ UNCHANGED draws
            \/ /\ draws' = Append(draws, DrawCall("caret", {}, render.textures,
                                                  atlases))
               /\ UNCHANGED alive
       ELSE /\ draws' = Append(draws, DrawCall("caret", {render.pipe},
                                               render.textures, atlases))
            /\ UNCHANGED alive
    /\ render' = Null
    /\ UNCHANGED <<atlases, glyphs, lastCall, extractions, gridBuilds, heapOverrun>>
    /\ UNCHANGED labelVars

(***************************************************************************)
(* A run with a label on the screen: glyphs of the default face are asked  *)
(* of the manager, the empty label is given its text, and frames are       *)
(* rendered with or without the caret.                                     *)
(***************************************************************************)
\* the two largest glyphs of the default face
RenderPoints == {2, 3}

RenderLoad ==
    \E point \in RenderPoints :
        /\ insert = Null
        /\ render = Null
        /\ GetGlyphForCodepoint(DefaultFace, point, TRUE, TRUE)
        /\ UNCHANGED labelVars
        /\ UNCHANGED renderVars

RenderSetText ==
    \E newText \in LabelTexts :
        /\ Len(text) = 0
        /\ InsertTextBegin(newText, 0, DefaultFace)
        /\ UNCHANGED undo
        /\ UNCHANGED renderVars

RenderFrame == \E caret \in BOOLEAN : RenderText(caret)

RenderPipe == \E loadOk \in BOOLEAN : RenderFetchPipe(loadOk, TRUE)

RenderNext ==
    \/ RenderLoad
    \/ RenderSetText
    \/ InsertTextLoop
    \/ InsertTextEnd
    \/ RenderFrame
    \/ RenderPipe
    \/ RenderCaret

SpecRender == Init /\ [][RenderNext]_vars

(***************************************************************************)
(* GLLabel::RemoveText(index, length), one step.  With index = 0 and       *)
(* length = 0 on a label that has text, glyphs[index + length - 1] is an   *)
(* element before the first one: the read is undefined, and `wild` is what *)
(* comes of it (the process ends, a null pointer is read, or the bytes     *)
(* read are taken for a record).                                           *)
(***************************************************************************)
WildReads == {"crash", "nullptr", "record"}

\* the offset and advance read through a pointer that points nowhere
WildPen == <<1, 1>>

\* std::vector::erase of `count` elements from (0-based) position at
EraseAt(seq, at, count) ==
    SubSeq(seq, 1, at) \o SubSeq(seq, at + count + 1, Len(seq))

\* everything from (0-based) codepoint i on moves back by delta; from a
\* newline on, in y only
RECURSIVE ShiftBack(_, _, _, _)
ShiftBack(vs, txt, i, delta) ==
    IF i >= Len(txt) THEN vs
    ELSE LET d == IF txt[i + 1] = NewLine THEN <<0, delta[2]>> ELSE delta
         IN ShiftBack([k \in 1..Len(vs) |->
                          IF k > i * 6 /\ k <= i * 6 + 6
                          THEN [vs[k] EXCEPT !.pos = <<@[1] - d[1], @[2] - d[2]>>]
                          ELSE vs[k]],
                      txt, i + 1, d)

RemoveText(index, length, wild) ==
    /\ alive
    /\ insert = Null
    /\ render = Null
    /\ IF index >= Len(text)
       THEN UNCHANGED <<text, labelGlyphs, verts, alive>>
       ELSE LET len == IF index + length > Len(text) THEN Len(text) - index
                       ELSE length
                startOffset == PenAt(verts, labelGlyphs, index)
                first == verts[index * 6 + 1].pos
                last == index + len - 1
                endOffset ==
                    IF last < 0
                    THEN IF wild = "record" THEN Add(first, WildPen) ELSE first
                    ELSE IF labelGlyphs[last + 1] # Null
                    THEN LET g == glyphs[labelGlyphs[last + 1]]
                         IN Add(first, <<g.advance - g.offset[1], 0 - g.offset[2]>>)
                    ELSE first
                deltaOffset == <<endOffset[1] - startOffset[1],
                                 endOffset[2] - startOffset[2]>>
            IN IF last < 0 /\ wild = "crash"
               THEN /\ alive' = FALSE
                    /\ UNCHANGED <<text, labelGlyphs, verts>>
               ELSE /\ text' = EraseAt(text, index, len)
                    /\ labelGlyphs' = EraseAt(labelGlyphs, index, len)
                    /\ verts' = ShiftBack(EraseAt(verts, index * 6, len * 6),
                                          text', index, deltaOffset)
                    /\ UNCHANGED alive
    /\ UNCHANGED <<atlases, glyphs, lastCall, extractions, gridBuilds, heapOverrun>>
    /\ UNCHANGED <<insert, renderVars>>

(***************************************************************************)
(* A label under edit, in the default face: texts of a glyph, the newline  *)
(* and the tab are inserted anywhere and any range is removed.             *)
(***************************************************************************)
EditChars == {1, NewLine, Tab}

\* a label is edited at most MaxEdits times
MaxEdits == 3

Edits == IF undo = Null THEN 0 ELSE undo.edits

EditTexts == UNION {[1..n -> EditChars] : n \in 1..MaxInsert}

EditInsert ==
    \E newText \in EditTexts, index \in 0..(MaxText + 1) :
        /\ Len(text) + Len(newText) <= MaxText
        /\ index <= Len(text) + 1
        /\ Edits < MaxEdits
        /\ InsertTextBegin(newText, index, DefaultFace)
        /\ undo' = [ edits |-> Edits + 1, inserted |-> TRUE,
                     text |-> text, labelGlyphs |-> labelGlyphs, verts |-> verts,
                     index |-> IF index > Len(text) THEN Len(text) ELSE index,
                     length |-> Len(newText) ]
        /\ UNCHANGED renderVars

EditRemove ==
    \E index \in 0..(MaxText + 1), length \in 0..(MaxText + 1), wild \in WildReads :
        /\ Edits < MaxEdits
        /\ RemoveText(index, length, wild)
        /\ undo' = [ edits |-> Edits + 1, inserted |-> FALSE,
                     text |-> <<>>, labelGlyphs |-> <<>>, verts |-> <<>>,
                     index |-> 0, length |-> 0 ]

\* the glyph loads
EditLoop == InsertTextChar(TRUE, TRUE) /\ UNCHANGED <<undo, renderVars>>

EditNext == EditInsert \/ EditLoop \/ InsertTextEnd \/ EditRemove

SpecEdit == Init /\ [][EditNext]_vars

(***************************************************************************)
(* Vocabulary of the properties.                                           *)
(***************************************************************************)
\* the no-curves flag of a record
NoCurves(glyph) == glyph.bezierAtlasPos[2] = -1

\* the step is a call of GetGlyphForCodepoint that took one of these paths
CallEnded(hows) == lastCall' # lastCall /\ lastCall'.how \in hows

\* the keys whose glyph data or grid was written to group i
WrittenKeys(as, i) ==
    {as[i].glyphDataBuf[j].key : j \in 1..Len(as[i].glyphDataBuf)}
        \cup {as[i].gridAtlas[j].key : j \in 1..Len(as[i].gridAtlas)}

AllWrittenKeys(as) == UNION {WrittenKeys(as, i) : i \in 1..Len(as)}

\* the cursors of the groups that exist in `as` are the same in `bs`
SameCursors(as, bs) ==
    \A i \in 1..Len(as) :
        /\ i <= Len(bs)
        /\ bs[i].glyphDataBufOffset = as[i].glyphDataBufOffset
        /\ bs[i].nextGridPos = as[i].nextGridPos

(***************************************************************************)
(* C1. Idempotent lookup: a call for a key whose record is stored returns  *)
(* that record (the same cache entry, its fields as stored) and changes    *)
(* neither an atlas group nor the cache, and extracts no outline and       *)
(* builds no grid; over a whole run every key sees at most one extraction  *)
(* and one grid build.                                                     *)
(***************************************************************************)
C1_HitStep ==
    \A key \in DOMAIN glyphs :
        (lastCall' # lastCall /\ lastCall'.key = key)
            => /\ lastCall'.ret = key
               /\ glyphs' = glyphs
               /\ atlases' = atlases
               /\ extractions' = extractions
               /\ gridBuilds' = gridBuilds
               /\ lastCall'.loads = 0

C1_AtMostOnce ==
    /\ \A key \in DOMAIN extractions : extractions[key] <= 1
    /\ \A key \in DOMAIN gridBuilds : gridBuilds[key] <= 1

C1_IdempotentLookup == [][C1_HitStep]_vars /\ []C1_AtMostOnce

\* a placed glyph and a degenerate one are cached and a placed one was just
\* returned from the cache
C1_Witness ==
    /\ lastCall.how = "hit"
    /\ ~NoCurves(glyphs[lastCall.key])
    /\ \E key \in DOMAIN glyphs : NoCurves(glyphs[key])
    /\ Len(atlases) >= 2

(***************************************************************************)
(* C2. Cache monotonicity: a stored record stays in the cache, with its    *)
(* atlas group index, glyph data offset, size, bearing and advance         *)
(* unchanged, whatever calls follow.                                       *)
(***************************************************************************)
C2_CacheMonotonic ==
    [][\A key \in DOMAIN glyphs :
          /\ key \in DOMAIN glyphs'
          /\ glyphs'[key].bezierAtlasPos = glyphs[key].bezierAtlasPos
          /\ glyphs'[key].size = glyphs[key].size
          /\ glyphs'[key].offset = glyphs[key].offset
          /\ glyphs'[key].advance = glyphs[key].advance]_vars

\* records of two groups are cached, later glyphs were stored after them and
\* the groups were flushed
C2_Witness ==
    /\ Cardinality(DOMAIN glyphs) >= 3
    /\ \E k1, k2 \in DOMAIN glyphs :
          /\ glyphs[k1].bezierAtlasPos[2] = 0
          /\ glyphs[k2].bezierAtlasPos[2] = 1
    /\ lastCall.how = "upload"

(***************************************************************************)
(* C3. Atomicity per glyph: a call that places no glyph (the load fails,   *)
(* or a degenerate record is stored) leaves the glyph data offset and the  *)
(* grid cursor of every atlas group as they were.                          *)
(***************************************************************************)
C3_CursorsAtomic ==
    [][CallEnded({"loadFailed", "degenerate"}) => SameCursors(atlases, atlases')]_vars

\* a degenerate record was stored while a group had both cursors advanced
C3_Witness ==
    /\ lastCall.how = "degenerate"
    /\ Len(atlases) >= 1
    /\ atlases[Len(atlases)].glyphDataBufOffset > 0
    /\ atlases[Len(atlases)].nextGridPos[1] > 0

(***************************************************************************)
(* C4. Failure locality: a call that ends with a degenerate record or with *)
(* no record leaves the atlases unchanged: the same number of groups, and  *)
(* every group's buffers, cursors and flags as before, the first call made *)
(* on the manager included.                                                *)
(***************************************************************************)
C4_FailureLocal ==
    [][CallEnded({"loadFailed", "degenerate"}) => atlases' = atlases]_vars

(***************************************************************************)
(* C5. Outline provider error: when the load fails the call returns null   *)
(* and stores no cache entry for the key, and a call for a key that has no *)
(* cache entry attempts the load (again).                                  *)
(***************************************************************************)
C5_LoadFailure ==
    [][/\ CallEnded({"loadFailed"})
          => /\ lastCall'.ret = Null
             /\ lastCall'.key \notin DOMAIN glyphs'
             /\ glyphs' = glyphs
       /\ (/\ CallEnded({"hit", "loadFailed", "degenerate", "placed", "crashed"})
           /\ lastCall'.key \notin DOMAIN glyphs)
             => lastCall'.loads = 1]_vars

\* the load of a key failed while other glyphs were cached
C5_Witness ==
    /\ lastCall.how = "loadFailed"
    /\ lastCall.ret = Null
    /\ lastCall.key \notin DOMAIN glyphs
    /\ Cardinality(DOMAIN glyphs) >= 2

(***************************************************************************)
(* C6. Empty outline: a glyph whose outline has no curves is stored (and   *)
(* returned) as a record with the no-curves flag whose size, bearing and   *)
(* advance are the font's metrics, the values the record of a placed glyph *)
(* carries; a glyph written to an atlas never has the flag.                *)
(***************************************************************************)
C6_EmptyOutline ==
    /\ \A key \in DOMAIN glyphs :
          /\ CurveCount(key[1], key[2]) = 0 =>
                /\ NoCurves(glyphs[key])
                /\ glyphs[key].size =
                      <<MetricsWidth(key[1], key[2]), MetricsHeight(key[1], key[2])>>
                /\ glyphs[key].offset =
                      <<MetricsHoriBearingX(key[1], key[2]),
                        MetricsHoriBearingY(key[1], key[2]) - MetricsHeight(key[1], key[2])>>
                /\ glyphs[key].advance = MetricsHoriAdvance(key[1], key[2])
                /\ glyphs[key].size = PlacedGlyph(key[1], key[2], <<NewAtlasGroup>>).size
                /\ glyphs[key].offset = PlacedGlyph(key[1], key[2], <<NewAtlasGroup>>).offset
                /\ glyphs[key].advance = PlacedGlyph(key[1], key[2], <<NewAtlasGroup>>).advance
          /\ key \in AllWrittenKeys(atlases) => ~NoCurves(glyphs[key])
    /\ (lastCall.how \in {"degenerate", "placed"}
          /\ CurveCount(lastCall.key[1], lastCall.key[2]) = 0)
          => (lastCall.ret = lastCall.key /\ lastCall.key \in DOMAIN glyphs)

\* the blank glyph was just stored, next to a placed glyph
C6_Witness ==
    /\ lastCall.how = "degenerate"
    /\ CurveCount(lastCall.key[1], lastCall.key[2]) = 0
    /\ NoCurves(glyphs[lastCall.key])
    /\ \E key \in DOMAIN glyphs : key \in AllWrittenKeys(atlases)

(***************************************************************************)
(* C7. Bezier budget: a glyph whose 2 + 3 n texels exceed the glyph data   *)
(* buffer (256 * 256 texels) is stored as a degenerate record and nothing  *)
(* of it is written to an atlas.                                           *)
(***************************************************************************)
C7_BezierBudget ==
    \A key \in DOMAIN glyphs :
        WrittenTexels(CurveCount(key[1], key[2])) > sq(kBezierAtlasSize)
            => /\ NoCurves(glyphs[key])
               /\ key \notin AllWrittenKeys(atlases)

(***************************************************************************)
(* C8. Per-cell capacity failure: a call for a glyph of which five or more *)
(* curves touch one grid cell stores a degenerate record with the metrics  *)
(* of the font, writes nothing to the glyph data buffer or the grid atlas  *)
(* and leaves both cursors of every group as they were.                    *)
(***************************************************************************)
C8_CellCapacity ==
    [][\A face \in Faces, point \in Points :
          (/\ CallEnded({"degenerate", "placed"})
           /\ lastCall'.key = <<face, point>>
           /\ MaxCurvesInCell(face, point) >= 5)
             => /\ NoCurves(glyphs'[<<face, point>>])
                /\ glyphs'[<<face, point>>].size =
                      <<MetricsWidth(face, point), MetricsHeight(face, point)>>
                /\ glyphs'[<<face, point>>].advance = MetricsHoriAdvance(face, point)
                /\ <<face, point>> \notin AllWrittenKeys(atlases')
                /\ SameCursors(atlases, atlases')]_vars

(***************************************************************************)
(* Grid positions of a fill run.                                           *)
(***************************************************************************)
\* the number of glyphs placed in the groups before group i
PlacedBefore(as, i) ==
    LET RECURSIVE sum(_)
        sum(k) == IF k = 0 THEN 0 ELSE Len(as[k].gridAtlas) + sum(k - 1)
    IN sum(i - 1)

\* the j-th grid written to group i is that of the Ordinal(as, i, j)-th glyph
\* placed
Ordinal(as, i, j) == PlacedBefore(as, i) + j

PlacedCount(as) == PlacedBefore(as, Len(as) + 1)

C10_Overflows(face, point) ==
    /\ CallEnded({"placed"})
    /\ lastCall'.key = <<face, point>>
    /\ Len(atlases) >= 1
    /\ atlases[Len(atlases)].glyphDataBufOffset
          + WrittenTexels(CurveCount(face, point)) > sq(kBezierAtlasSize)

C10_NewGroup(face, point) ==
    LET old == Len(atlases) IN
    /\ Len(atlases') = old + 1
    /\ atlases'[old].full
    /\ atlases'[old].glyphDataBufOffset = atlases[old].glyphDataBufOffset
    /\ glyphs'[<<face, point>>].bezierAtlasPos = <<0, old>>
    /\ Len(atlases'[old + 1].glyphDataBuf) = 1
    /\ atlases'[old + 1].glyphDataBuf[1].key = <<face, point>>
    /\ atlases'[old + 1].glyphDataBuf[1].at = 0
    /\ atlases'[old + 1].gridAtlas[1].x = 0
    /\ atlases'[old + 1].gridAtlas[1].y = 0

C10_DataOverflow ==
    [][\A face \in Faces, point \in Points :
          C10_Overflows(face, point) => C10_NewGroup(face, point)]_vars

(***************************************************************************)
(* C11. Cursor advance: a call that places a glyph of n curves stores as   *)
(* the record's glyph data offset the value the cursor of its group had    *)
(* before the write (0 in a group the call opened); after the call that    *)
(* group's glyph data offset is 2 + 3 n larger, and its grid cursor x is   *)
(* 20 larger than the x the grid was written at.                           *)
(***************************************************************************)
\* the glyph data offset group i of `as` has, 0 when the group is yet to be
\* opened
CursorBefore(as, i) == IF i <= Len(as) THEN as[i].glyphDataBufOffset ELSE 0

C11_Advanced(key) ==
    LET i == glyphs'[key].bezierAtlasPos[2] + 1
        written == atlases'[i].gridAtlas[Len(atlases'[i].gridAtlas)]
    IN /\ glyphs'[key].bezierAtlasPos[1] = CursorBefore(atlases, i)
       /\ atlases'[i].glyphDataBufOffset
             = glyphs'[key].bezierAtlasPos[1] + 2 + 3 * CurveCount(key[1], key[2])
       /\ written.key = key
       /\ atlases'[i].nextGridPos[1] = written.x + kGridMaxSize
       /\ atlases'[i].nextGridPos[2] = written.y

C11_CursorAdvance ==
    [][CallEnded({"placed"}) => C11_Advanced(lastCall'.key)]_vars

(***************************************************************************)
(* C12. Program-order allocation: when a glyph B is placed after a glyph A *)
(* was, (group index, glyph data offset) of A is strictly smaller than     *)
(* that of B in lexicographic order, and when both are in the same group   *)
(* the grid position of A comes before that of B, rows top to bottom and   *)
(* left to right within a row.                                             *)
(***************************************************************************)
\* the keys of the cached glyphs that were written to an atlas
PlacedKeys == {key \in DOMAIN glyphs : ~NoCurves(glyphs[key])}

\* the grid written for the glyph of record `glyph` stored under `key`
GridOf(as, key, glyph) ==
    LET i == glyph.bezierAtlasPos[2] + 1 IN
    as[i].gridAtlas[CHOOSE j \in 1..Len(as[i].gridAtlas) : as[i].gridAtlas[j].key = key]

LexLess(a, b) == a[1] < b[1] \/ (a[1] = b[1] /\ a[2] < b[2])

C12_Before(keyA, keyB) ==
    LET A == glyphs[keyA]
        B == glyphs'[keyB]
        gridA == GridOf(atlases, keyA, A)
        gridB == GridOf(atlases', keyB, B)
    IN /\ LexLess(<<A.bezierAtlasPos[2], A.bezierAtlasPos[1]>>,
                  <<B.bezierAtlasPos[2], B.bezierAtlasPos[1]>>)
       /\ A.bezierAtlasPos[2] = B.bezierAtlasPos[2]
             => LexLess(<<gridA.y, gridA.x>>, <<gridB.y, gridB.x>>)

ushortFromVec2(v) == v[2] * 257 + v[1]

vec2FromPixel(texel) ==
    <<ushortFromVec2(<<texel[1], texel[2]>>), ushortFromVec2(<<texel[3], texel[4]>>)>>

\* oGridRect of the vertex shader, of the texels at glyphDataOffset and
\* glyphDataOffset + 1
oGridRect(texels) == vec2FromPixel(texels[1]) \o vec2FromPixel(texels[2])

\* glyphVertex.glsl main: glyphDataOffset = vData >> 2u
glyphDataOffset(vData) == vData \div 4

\* oNormCoord = vec2((vData & 2u) >> 1, vData & 1u)
oNormCoord(vData) == <<(vData \div 2) % 2, vData % 2>>

\* glyphFragment.glsl: (v.y * 65280.0 + v.x * 255.0) / 65536.0 with
\* v.x = R / 255 and v.y = G / 255 is (256 * G + R) / 65536; this is the
\* numerator
normalizedUshortFromVec2(v) == v[2] * 256 + v[1]

\* the texel fetchBezier reads for point i of the curve coordIndex
fetchBezierOffset(offset, coordIndex, i) == offset + 2 + coordIndex * 3 + i

\* p[i] of fetchBezier before oNormCoord is subtracted: x of pixel.xy and y
\* of pixel.zw
fetchBezierPoint(texel) ==
    <<normalizedUshortFromVec2(<<texel[1], texel[2]>>),
      normalizedUshortFromVec2(<<texel[3], texel[4]>>)>>

\* (mutant) the flag is read the other way round
midInsideReversed(indices1) == indices1[1] < indices1[2]

\* glyphFragment.glsl main: bool midInside = indices1[0] > indices1[1], of
\* the four bytes of the cell's texel
midInside(indices1) == indices1[1] > indices1[2]

\* a slot byte of the grid names a curve when it is 2 or more: the curve
\* slot - 2
kBezierIndexFirstReal == 2

(***************************************************************************)
(* C13. Header round-trip: the two header texels of every glyph placed     *)
(* hold the grid's position (gridX, gridY) and its size (W, H), each value *)
(* with its low byte in R (resp. B) and its high byte in G (resp. A), and  *)
(* the vertex shader's decoding of the two texels gives back               *)
(* (gridX, gridY, W, H), for every position and size the packer produces.  *)
(***************************************************************************)
C13_HeaderRoundTrip ==
    \A i \in 1..Len(atlases) : \A j \in 1..Len(atlases[i].glyphDataBuf) :
        LET w == atlases[i].glyphDataBuf[j]
            grid == atlases[i].gridAtlas[j]
        IN /\ w.key = grid.key
           /\ w.header[1] = <<grid.x % 256, grid.x \div 256, grid.y % 256, grid.y \div 256>>
           /\ w.header[2] = <<grid.width % 256, grid.width \div 256,
                              grid.height % 256, grid.height \div 256>>
           /\ oGridRect(w.header) = <<grid.x, grid.y, grid.width, grid.height>>

\* the grid of the last column and the last row of a group has been written
C13_Witness ==
    \E i \in 1..Len(atlases) : \E j \in 1..Len(atlases[i].glyphDataBuf) :
        /\ atlases[i].gridAtlas[j].x = 220
        /\ atlases[i].gridAtlas[j].y = 240
        /\ oGridRect(atlases[i].glyphDataBuf[j].header) = <<220, 240, 20, 20>>

(***************************************************************************)
(* C14. Coordinate encoding rounds to nearest: every coordinate of a curve *)
(* is stored as round(coord * 65535 / glyphSize.axis); the point (w/2, h)  *)
(* of a glyph of size (1024, 2048) is stored as (32768, 65535).            *)
(***************************************************************************)
\* coord * 65535 / size rounded to the nearest integer, halves upwards
RoundCoord(coord, size) == (2 * coord * UINT16_MAX + size) \div (2 * size)

C14_Rounded(point, glyphSize) ==
    Texel(RoundCoord(point[1], glyphSize[1]), RoundCoord(point[2], glyphSize[2]))

C14_RoundsToNearest ==
    \A i \in 1..Len(atlases) : \A j \in 1..Len(atlases[i].glyphDataBuf) :
        LET w == atlases[i].glyphDataBuf[j]
            bezier == FirstCurve(w.key[1], w.key[2])
            glyphSize == <<MetricsWidth(w.key[1], w.key[2]), MetricsHeight(w.key[1], w.key[2])>>
        IN /\ w.bezier0 = << C14_Rounded(bezier.e0, glyphSize),
                              C14_Rounded(bezier.c, glyphSize),
                              C14_Rounded(bezier.e1, glyphSize) >>
           /\ (glyphSize = <<1024, 2048>> /\ bezier.e0 = <<512, 2048>>)
                 => w.bezier0[1] = Texel(32768, 65535)

(***************************************************************************)
(* C15. Vertex attribute round-trip: for every codepoint of a label that   *)
(* shows a glyph record with glyph data offset o, each of its six vertices *)
(* lies at a corner (normX, normY) of the glyph's quad and carries         *)
(* data = (o << 2) | (normX << 1) | normY, a value that fits the unsigned  *)
(* int, and the vertex shader decodes data to (o, normX, normY).           *)
(***************************************************************************)
C15_VertexAt(v, base, glyph, normX, normY) ==
    /\ v.pos = Add(base, <<normX * glyph.size[1], normY * glyph.size[2]>>)
    /\ v.data = glyph.bezierAtlasPos[1] * 4 + normX * 2 + normY
    /\ glyph.bezierAtlasPos[1] < (UINT16_MOD \div 2) * (UINT16_MOD \div 2)
    /\ glyphDataOffset(v.data) = glyph.bezierAtlasPos[1]
    /\ oNormCoord(v.data) = <<normX, normY>>

C15_VertexRoundTrip ==
    \A p \in 1..Len(labelGlyphs) :
        labelGlyphs[p] # Null =>
            \A j \in 1..6 : \E normX, normY \in {0, 1} :
                C15_VertexAt(verts[(p - 1) * 6 + j], verts[(p - 1) * 6 + 1].pos,
                             glyphs[labelGlyphs[p]], normX, normY)

\* a finished label shows a glyph that lies behind another one in its group;
\* its fourth vertex is the corner (1, 1)
C15_Witness ==
    /\ insert = Null
    /\ \E p \in 1..Len(labelGlyphs) :
          /\ labelGlyphs[p] # Null
          /\ glyphs[labelGlyphs[p]].bezierAtlasPos[1] > 0
          /\ verts[(p - 1) * 6 + 4].data = glyphs[labelGlyphs[p]].bezierAtlasPos[1] * 4 + 3
          /\ verts[(p - 1) * 6 + 4].pos # verts[(p - 1) * 6 + 1].pos

(***************************************************************************)
(* C16. Curve addressing agreement: the points e0, c, e1 of curve i of a   *)
(* glyph placed at glyph data offset o are written to the texels           *)
(* o + 2 + 3 i, o + 2 + 3 i + 1 and o + 2 + 3 i + 2, x in the low          *)
(* half-word and y in the high one, and these are the texels and the       *)
(* halves the fragment shader reads for the slot value i + 2, the glyph    *)
(* data offset being the one the vertex shader takes from a vertex of the  *)
(* glyph.                                                                  *)
(***************************************************************************)
\* the slot values that name a curve of a glyph of n curves
RealSlots(n) ==
    {s \in kBezierIndexFirstReal..255 : s - kBezierIndexFirstReal < n}

C16_Agree(glyph, n) ==
    LET o == glyph.bezierAtlasPos[1] IN
    \A s \in RealSlots(n) : \A pt \in 0..2 :
        LET i == s - kBezierIndexFirstReal
            fetched == fetchBezierOffset(glyphDataOffset(PackData(glyph, pt)), i, pt)
        IN /\ fetched = o + 2 + 3 * i + pt
           \* the write starts at byte o * 4 of the buffer, half-word o * 2
           /\ o * 2 + HalfWordOf(i, 2 * pt) = fetched * 2
           /\ o * 2 + HalfWordOf(i, 2 * pt + 1) = fetched * 2 + 1

C16_FirstCurve(key) ==
    LET w == CHOOSE w \in {atlases'[i].glyphDataBuf[j] :
                              i \in {glyphs'[key].bezierAtlasPos[2] + 1},
                              j \in 1..Len(atlases'[glyphs'[key].bezierAtlasPos[2] + 1].glyphDataBuf)} :
                    w.key = key
        bezier == FirstCurve(key[1], key[2])
        w0 == MetricsWidth(key[1], key[2])
        h0 == MetricsHeight(key[1], key[2])
    IN /\ w.at = glyphs'[key].bezierAtlasPos[1]
       /\ fetchBezierPoint(w.bezier0[1]) = <<ScaleCoord(bezier.e0[1], w0), ScaleCoord(bezier.e0[2], h0)>>
       /\ fetchBezierPoint(w.bezier0[2]) = <<ScaleCoord(bezier.c[1], w0), ScaleCoord(bezier.c[2], h0)>>
       /\ fetchBezierPoint(w.bezier0[3]) = <<ScaleCoord(bezier.e1[1], w0), ScaleCoord(bezier.e1[2], h0)>>

C16_CurveAddressing ==
    [][CallEnded({"placed"})
          => /\ C16_Agree(glyphs'[lastCall'.key],
                          CurveCount(lastCall'.key[1], lastCall'.key[2]))
             /\ C16_FirstCurve(lastCall'.key)]_vars

\* a glyph with more curves than slot values was placed behind another one
C16_Witness ==
    /\ lastCall.how = "placed"
    /\ CurveCount(lastCall.key[1], lastCall.key[2]) > 254
    /\ glyphs[lastCall.key].bezierAtlasPos[1] > 0

(***************************************************************************)
(* C17. Dirty flag: in every state reached by calls of                     *)
(* GetGlyphForCodepoint and UploadAtlases in any order, a group to whose   *)
(* glyph data or grid atlas something was written since it was last        *)
(* uploaded (or since it was created) has uploaded = false, so a group     *)
(* with uploaded = true has nothing written that the GPU does not hold;    *)
(* after UploadAtlases every group has uploaded = true.                    *)
(***************************************************************************)
C17_DirtyFlag ==
    /\ \A i \in 1..Len(atlases) : atlases[i].unsent => ~atlases[i].uploaded
    /\ lastCall.how = "upload" =>
          \A i \in 1..Len(atlases) : atlases[i].uploaded /\ ~atlases[i].unsent

\* the first group was uploaded with glyphs in it and left alone since; the
\* second was uploaded too and a glyph was written to it afterwards
C17_Witness ==
    /\ Len(atlases) = 2
    /\ lastCall.how = "placed"
    /\ atlases[1].uploaded
    /\ Len(atlases[1].glyphDataBuf) > 0
    /\ Len(atlases[2].glyphDataBuf) > 1
    /\ atlases[2].unsent
    /\ ~atlases[2].uploaded

(***************************************************************************)
(* C18 (as amended). Sentinel ordering encodes mid-inside: for every cell  *)
(* that no curve touches, written as 1, 0, 0, 0 (inside) or 0, 1, 0, 0     *)
(* (outside), the value the fragment shader infers, s0 > s1, is true iff   *)
(* the centre of the cell is inside the outline.  In a cell whose curves   *)
(* are stored first (as index + 2) s0 > s1 does not tell the side: with    *)
(* one curve it is true, with two or more it compares the indices of the   *)
(* first two curves.                                                       *)
(***************************************************************************)
\* what the shader infers for the c-th cell of the grid written as `grid`
C18_Inferred(grid, c) == midInside(grid.cells[c])

QuadNonEmpty(p) ==
    /\ verts[(p - 1) * 6 + 4].pos[1] # verts[(p - 1) * 6 + 1].pos[1]
    /\ verts[(p - 1) * 6 + 4].pos[2] # verts[(p - 1) * 6 + 1].pos[2]

\* the vertex shader takes from the quad the glyph data offset of a glyph
\* that was written to an atlas
RefersToPlaced(p) ==
    \E key \in PlacedKeys :
        \A j \in 1..6 :
            glyphDataOffset(verts[(p - 1) * 6 + j].data) = glyphs[key].bezierAtlasPos[1]

C19_NoVisibleArea ==
    \A p \in 1..Len(labelGlyphs) :
        (labelGlyphs[p] # Null /\ NoCurves(glyphs[labelGlyphs[p]]))
            => ~(QuadNonEmpty(p) /\ RefersToPlaced(p))

(***************************************************************************)
(* C20. Append-only, non-overlapping allocation: in every state the glyph  *)
(* data ranges [offset, offset + 2 + 3 n) of two glyphs written to the     *)
(* same group are disjoint and lie within [0, 256 * 256), and their grids  *)
(* of 20 x 20 cells are disjoint; no glyph is written over the texels of   *)
(* an earlier one, also not after a glyph whose data ends at the last      *)
(* texel of the buffer.                                                    *)
(***************************************************************************)
RangesDisjoint(a, b) ==
    a.at + a.texels <= b.at \/ b.at + b.texels <= a.at

GridsDisjoint(a, b) ==
    \/ a.x + a.width <= b.x \/ b.x + b.width <= a.x
    \/ a.y + a.height <= b.y \/ b.y + b.height <= a.y

C20_NonOverlapping ==
    \A i \in 1..Len(atlases) :
        /\ \A j \in 1..Len(atlases[i].glyphDataBuf) :
              /\ atlases[i].glyphDataBuf[j].at >= 0
              /\ atlases[i].glyphDataBuf[j].at + atlases[i].glyphDataBuf[j].texels
                    <= sq(kBezierAtlasSize)
        /\ \A j, k \in 1..Len(atlases[i].glyphDataBuf) :
              j < k => /\ RangesDisjoint(atlases[i].glyphDataBuf[j], atlases[i].glyphDataBuf[k])
                       /\ GridsDisjoint(atlases[i].gridAtlas[j], atlases[i].gridAtlas[k])

(***************************************************************************)
(* C21  Single open group.  Whenever a call of GetGlyphForCodepoint has    *)
(* returned, every atlas group but the last is full and the last is not    *)
(* full; a step never changes the cursors or the contents of a group that  *)
(* is full, and adds at most one group.                                    *)
(***************************************************************************)
C21_OnlyLastOpen ==
    \A i \in 1..Len(atlases) : atlases[i].full <=> i < Len(atlases)

C21_FullIsFrozen ==
    /\ Len(atlases') \in {Len(atlases), Len(atlases) + 1}
    /\ \A i \in 1..Len(atlases) :
          atlases[i].full =>
             /\ atlases'[i].full
             /\ atlases'[i].glyphDataBufOffset = atlases[i].glyphDataBufOffset
             /\ atlases'[i].nextGridPos = atlases[i].nextGridPos
             /\ atlases'[i].glyphDataBuf = atlases[i].glyphDataBuf
             /\ atlases'[i].gridAtlas = atlases[i].gridAtlas

C21_SingleOpenGroup == []C21_OnlyLastOpen /\ [][C21_FullIsFrozen]_vars

\* a glyph has been placed in a second group, the first being full
C21_Witness ==
    /\ Len(atlases) = 2
    /\ atlases[1].full
    /\ lastCall.how = "placed"
    /\ Len(atlases[2].glyphDataBuf) > 0

(***************************************************************************)
(* C22  Grid regions stay inside the atlas.  The grid of every glyph       *)
(* written to an atlas lies within the kGridAtlasSize x kGridAtlasSize     *)
(* texels of gridAtlas: x + kGridMaxSize <= kGridAtlasSize and             *)
(* y + kGridMaxSize <= kGridAtlasSize, for the position written to the     *)
(* header as for the one handed to WriteVGridAt.                           *)
(***************************************************************************)
C22_Inside(x, y) ==
    /\ x + kGridMaxSize <= kGridAtlasSize
    /\ y + kGridMaxSize <= kGridAtlasSize

C22_GridInsideAtlas ==
    \A i \in 1..Len(atlases) :
       /\ \A k \in 1..Len(atlases[i].gridAtlas) :
             C22_Inside(atlases[i].gridAtlas[k].x, atlases[i].gridAtlas[k].y)
       /\ \A k \in 1..Len(atlases[i].glyphDataBuf) :
             C22_Inside(atlases[i].glyphDataBuf[k].gridX, atlases[i].glyphDataBuf[k].gridY)

(***************************************************************************)
(* C23  Render uses the glyph's own group.  At every draw of Render, of    *)
(* the text as of the caret, the grid atlas and the glyph data buffer the  *)
(* shader reads are those of the group whose index is in the record of     *)
(* each glyph drawn, however many groups there are.                        *)
(***************************************************************************)
\* the group index in the record of a glyph that is in an atlas
GroupOf(key) == glyphs[key].bezierAtlasPos[2]

C23_OwnGroup(draw) ==
    \A key \in draw.keys :
        ~NoCurves(glyphs[key]) =>
            /\ draw.gridAtlas = GroupOf(key)
            /\ draw.glyphData = GroupOf(key)

C23_RenderUsesOwnGroup == \A d \in 1..Len(draws) : C23_OwnGroup(draws[d])

(***************************************************************************)
(* C24  Upload precedes draw.  At every draw of Render, of the text as of  *)
(* the caret, every atlas group has uploaded = true.                       *)
(***************************************************************************)
C24_UploadPrecedesDraw == \A d \in 1..Len(draws) : draws[d].notUploaded = {}

(***************************************************************************)
(* C25  Incremental insert equals full layout.  Whenever no InsertText is  *)
(* under way, the vertex positions of the label are those that one         *)
(* InsertText of its whole text into an empty label gives (with the same   *)
(* answers of GetGlyphForCodepoint): of all six vertices of a codepoint    *)
(* that has a glyph, and of the first vertex of any other.                 *)
(***************************************************************************)
\* the loop of InsertText(txt, 0, color, face) on an empty label, from the
\* (1-based) codepoint i on with the pen at appendOffset: per codepoint its
\* six vertex positions; gs[i] is what GetGlyphForCodepoint returns for it
RECURSIVE FullLayout(_, _, _, _, _)
FullLayout(txt, gs, face, i, appendOffset) ==
    IF i > Len(txt) THEN <<>>
    ELSE LET blank(at) == <<[j \in 1..6 |-> IF j = 1 THEN at ELSE emptyVert.pos]>>
             down == <<0, appendOffset[2] - FaceHeight(face)>>
             along == <<appendOffset[1] + 2000, appendOffset[2]>>
         IN IF txt[i] = CarriageReturn
            THEN blank(appendOffset) \o FullLayout(txt, gs, face, i + 1, appendOffset)
            ELSE IF txt[i] = NewLine
            THEN blank(down) \o FullLayout(txt, gs, face, i + 1, down)
            ELSE IF txt[i] = Tab
            THEN blank(along) \o FullLayout(txt, gs, face, i + 1, along)
            ELSE IF gs[i] = Null
            THEN blank(appendOffset) \o FullLayout(txt, gs, face, i + 1, appendOffset)
            ELSE LET quad == GlyphQuad(glyphs[gs[i]], appendOffset)
                 IN <<[j \in 1..6 |-> quad[j].pos]>>
                    \o FullLayout(txt, gs, face, i + 1,
                                  <<appendOffset[1] + glyphs[gs[i]].advance,
                                    appendOffset[2]>>)

\* the codepoint p (1-based) of the label is where `layout` has it
SamePlace(layout, p) ==
    \A j \in 1..6 :
        (j = 1 \/ labelGlyphs[p] # Null) => verts[(p - 1) * 6 + j].pos = layout[p][j]

C25_IncrementalEqualsFull ==
    (alive /\ insert = Null) =>
        LET layout == FullLayout(text, labelGlyphs, DefaultFace, 1, <<0, 0>>)
        IN \A p \in 1..Len(text) : SamePlace(layout, p)

(***************************************************************************)
(* C26  Insert/remove round-trip.  RemoveText(index, |t|) right after      *)
(* InsertText(t, index), index within the text and t not empty, gives the  *)
(* label its text, its glyph list and every vertex position back as they   *)
(* were before the insertion.                                              *)
(***************************************************************************)
\* the step removes what the latest edit, an InsertText, has inserted
C26_Undoes ==
    /\ insert = Null
    /\ undo # Null
    /\ undo.inserted
    /\ undo.length >= 1
    /\ \E wild \in WildReads : RemoveText(undo.index, undo.length, wild)

C26_Restored ==
    /\ text' = undo.text
    /\ labelGlyphs' = undo.labelGlyphs
    /\ Len(verts') = Len(undo.verts)
    /\ \A k \in 1..Len(undo.verts) : verts'[k].pos = undo.verts[k].pos

C26_RoundTrip == [][C26_Undoes => C26_Restored]_vars

(***************************************************************************)
(* C27  Out-of-range and empty removals are safe no-ops.  RemoveText with  *)
(* index at or past the end of the text, or with length 0 at any index,    *)
(* reads no element outside the arrays (the process lives on) and leaves   *)
(* the text, the glyph list and every vertex position as they are.         *)
(***************************************************************************)
C27_Removes(index, length) ==
    \E wild \in WildReads : RemoveText(index, length, wild)

C27_NoOp ==
    /\ alive'
    /\ text' = text
    /\ labelGlyphs' = labelGlyphs
    /\ \A k \in 1..Len(verts) : verts'[k].pos = verts[k].pos

C27_SafeNoOps ==
    [][\A index \in 0..(MaxText + 1), length \in 0..(MaxText + 1) :
          ((index >= Len(text) \/ length = 0) /\ C27_Removes(index, length))
              => C27_NoOp]_vars

=============================================================================
